---- MODULE Spec2Model ----
(***************************************************************************)
(* BallTracker and is_point_in_bounds of src/ml/hawkeye_video_test.py.     *)
(*                                                                         *)
(* Units.  The source computes in floating point; the model computes in    *)
(* exact integers:                                                         *)
(*   court coordinates and distances   millimetres   (4.115 m = 4115)      *)
(*   timestamps and the cooldown       milliseconds  (0.5 s   = 500)       *)
(*   pixel coordinates                 1/60 pixel    (15 px   = 900)       *)
(* 1/60 pixel makes the linear interpolation j/frame_gap exact for every   *)
(* frame gap that divides 60, so no rounding is introduced by the model.   *)
(* An Optional[float] is <<>> (None) or <<v>>.                             *)
(***************************************************************************)
EXTENDS Integers, Sequences, FiniteSets

VARIABLES
    fps,               \* BallTracker.fps
    bounce_cooldown,   \* BallTracker.bounce_cooldown (ms)
    positions,         \* BallTracker.positions: the sliding window
    all_positions,     \* BallTracker.all_positions: the full history
    bounces,           \* BallTracker.bounces: the streaming bounce list
    last_bounce_time,  \* BallTracker.last_bounce_time (ms; -1 s = -1000)
    last_bounce_frame, \* BallTracker.last_bounce_frame
    calibrator,        \* the CourtCalibrator handed to the batch pass
    returned,          \* what the latest call returned to its caller
    finalized,         \* detect_bounces_from_trajectory has been called
    query,             \* the arguments of the latest is_point_in_bounds call
    verdict,           \* and its result
    calibration_file,  \* the calibration record on disk, None when there is none
    pc,                \* where process_video is
    frame_id,          \* process_video's frame counter
    paused,            \* process_video's pause flag
    pending,           \* the detections of the frame not yet handed over
    result             \* process_video's TrackingResult

vars == <<fps, bounce_cooldown, positions, all_positions, bounces,
          last_bounce_time, last_bounce_frame, calibrator, returned, finalized,
          query, verdict, calibration_file, pc, frame_id, paused, pending, result>>

\* the locals of process_video
video == <<pc, frame_id, paused, pending, result>>

tracker == <<fps, bounce_cooldown, positions, all_positions, bounces,
             last_bounce_time, last_bounce_frame>>

----------------------------------------------------------------------------
(* Bounds of the model *)

\* detections pushed in a session of the timing specifications
MaxPush == 9
\* detections pushed in a session of the court and shape specifications
MaxPushShort == 7

----------------------------------------------------------------------------
(* Program constants *)

SINGLES_HALF_WIDTH == 4115
DOUBLES_HALF_WIDTH == 5485
HALF_LENGTH == 11885
\* the 3.0 m of _is_valid_court_position
COURT_MARGIN == 3000
\* positions keeps the latest 60
WINDOW_CAP == 60
\* _detect_bounce_pixel looks at positions[-7:]
RECENT_LEN == 7
\* max_gap > 0.5 s
MAX_TIME_GAP == 500
\* min_change of the streaming pass, 15 px
STREAM_MIN_CHANGE == 900
\* min_change of the batch pass, 12 px
BATCH_MIN_CHANGE == 720
\* 3 < frame_gap <= 15
INTERP_MIN_GAP == 3
INTERP_MAX_GAP == 15
\* confidence of an interpolated detection, 0.5, in percent
INTERP_CONFIDENCE == 50

None == <<>>
Some(v) == <<v>>
Val(o) == o[1]
Abs(n) == IF n < 0 THEN -n ELSE n

RECURSIVE SumSeq(_)
SumSeq(s) == IF s = <<>> THEN 0 ELSE Head(s) + SumSeq(Tail(s))

Min2(a, b) == IF a <= b THEN a ELSE b

----------------------------------------------------------------------------
(* is_point_in_bounds *)

LineOrder == <<"left_sideline", "right_sideline", "far_baseline", "near_baseline">>

HalfWidth(match_type) ==
    IF match_type = "singles" THEN SINGLES_HALF_WIDTH ELSE DOUBLES_HALF_WIDTH

\* the dict `distances`, in insertion order
Distances(x, y, match_type) ==
    <<x + HalfWidth(match_type), HalfWidth(match_type) - x,
      HALF_LENGTH - y, y + HALF_LENGTH>>

\* min(distances.values())
MinDist(ds) == Min2(Min2(ds[1], ds[2]), Min2(ds[3], ds[4]))

\* [k for k, v in distances.items() if v == min_dist][0]
FirstLineAtMutLast(ds, m) ==
    LineOrder[CHOOSE i \in 1..4 : ds[i] = m /\ \A j \in (i+1)..4 : ds[j] # m]
FirstLineAt(ds, m) ==
    LineOrder[CHOOSE i \in 1..4 : ds[i] = m /\ \A j \in 1..(i-1) : ds[j] # m]

IsInMutStrict(x, y, half_width) ==
    x > -half_width /\ x < half_width /\ y > -HALF_LENGTH /\ y < HALF_LENGTH
IsIn(x, y, half_width) ==
    x >= -half_width /\ x <= half_width /\ y >= -HALF_LENGTH /\ y <= HALF_LENGTH

SignedDistance(is_in, min_dist) == IF is_in THEN min_dist ELSE -min_dist

is_point_in_bounds(x, y, match_type) ==
    LET ds == Distances(x, y, match_type)
        min_dist == MinDist(ds)
        is_in == IsIn(x, y, HalfWidth(match_type))
    IN  [is_in |-> is_in,
         distance |-> SignedDistance(is_in, min_dist),
         line_type |-> FirstLineAt(ds, min_dist)]

----------------------------------------------------------------------------
(* BallTracker: the streaming pass *)

is_valid_court_position_mut_none(x, y) == TRUE
is_valid_court_position(x, y) ==
    LET MAX_X == SINGLES_HALF_WIDTH + COURT_MARGIN
        MAX_Y == HALF_LENGTH + COURT_MARGIN
    IN  Abs(x) <= MAX_X /\ Abs(y) <= MAX_Y

\* Bounce(...) built from the detection and the singles verdict
MakeBounceMutNextFrame(d) ==
    LET v == is_point_in_bounds(Val(d.court_x), Val(d.court_y), "singles")
    IN  [frame_id |-> d.frame_id + 1, timestamp |-> d.timestamp,
         pixel_x |-> d.pixel_x, pixel_y |-> d.pixel_y,
         court_x |-> Val(d.court_x), court_y |-> Val(d.court_y),
         is_in |-> v.is_in, distance_from_line |-> v.distance]
MakeBounceMutDoubles(d) ==
    LET v == is_point_in_bounds(Val(d.court_x), Val(d.court_y), "doubles")
    IN  [frame_id |-> d.frame_id, timestamp |-> d.timestamp,
         pixel_x |-> d.pixel_x, pixel_y |-> d.pixel_y,
         court_x |-> Val(d.court_x), court_y |-> Val(d.court_y),
         is_in |-> v.is_in, distance_from_line |-> v.distance]
MakeBounce(d) ==
    LET v == is_point_in_bounds(Val(d.court_x), Val(d.court_y), "singles")
    IN  [frame_id |-> d.frame_id, timestamp |-> d.timestamp,
         pixel_x |-> d.pixel_x, pixel_y |-> d.pixel_y,
         court_x |-> Val(d.court_x), court_y |-> Val(d.court_y),
         is_in |-> v.is_in, distance_from_line |-> v.distance]

\* max(time_gaps) > 0.5
TimeDiscontinuousMutNever(recent) == FALSE
TimeDiscontinuous(recent) ==
    \E i \in 1..(Len(recent) - 1) :
        recent[i+1].timestamp - recent[i].timestamp > MAX_TIME_GAP

\* center > left_avg + min_change and center > right_avg + min_change, for the
\* 7 detections w; the averages are sums over 3, so both sides are times 3
IsLocalMaxMutInclusive(w, min_change) ==
    /\ 3 * w[4].pixel_y >= SumSeq([i \in 1..3 |-> w[i].pixel_y]) + 3 * min_change
    /\ 3 * w[4].pixel_y >= SumSeq([i \in 1..3 |-> w[4 + i].pixel_y]) + 3 * min_change
IsLocalMaxMutLeftOnly(w, min_change) ==
    3 * w[4].pixel_y > SumSeq([i \in 1..3 |-> w[i].pixel_y]) + 3 * min_change
IsLocalMax(w, min_change) ==
    LET mid == Len(w) \div 2
        left == SumSeq([i \in 1..mid |-> w[i].pixel_y])
        right == SumSeq([i \in 1..(Len(w) - mid - 1) |-> w[mid + 1 + i].pixel_y])
        center == w[mid + 1].pixel_y
    IN  /\ mid * center > left + mid * min_change
        /\ (Len(w) - mid - 1) * center > right + (Len(w) - mid - 1) * min_change

\* current_time - self.last_bounce_time < self.bounce_cooldown
InCooldownMutNever(current_time, last_time, cooldown) == FALSE
InCooldown(current_time, last_time, cooldown) ==
    current_time - last_time < cooldown

HasCourt(d) == d.court_x # None /\ d.court_y # None

\* the detection _detect_bounce_pixel turns into a bounce on the window pos,
\* as a sequence of length 0 (every early return) or 1
StreamingBounce(pos, last_time, cooldown) ==
    IF Len(pos) < RECENT_LEN THEN <<>>
    ELSE LET recent == SubSeq(pos, Len(pos) - RECENT_LEN + 1, Len(pos))
             bd == recent[(Len(recent) \div 2) + 1]
         IN  IF TimeDiscontinuous(recent) THEN <<>>
             ELSE IF ~IsLocalMax(recent, STREAM_MIN_CHANGE) THEN <<>>
             ELSE IF InCooldown(bd.timestamp, last_time, cooldown) THEN <<>>
             ELSE IF ~HasCourt(bd) THEN <<>>
             ELSE IF ~is_valid_court_position(Val(bd.court_x), Val(bd.court_y)) THEN <<>>
             ELSE <<MakeBounce(bd)>>

detect_bounce_pixel_mut_prepend(pos) ==
    LET found == StreamingBounce(pos, last_bounce_time, bounce_cooldown)
    IN  IF found = <<>>
        THEN UNCHANGED <<bounces, last_bounce_time, last_bounce_frame>>
        ELSE /\ bounces' = <<found[1]>> \o bounces
             /\ last_bounce_time' = found[1].timestamp
             /\ last_bounce_frame' = found[1].frame_id
detect_bounce_pixel(pos) ==
    LET found == StreamingBounce(pos, last_bounce_time, bounce_cooldown)
    IN  IF found = <<>>
        THEN UNCHANGED <<bounces, last_bounce_time, last_bounce_frame>>
        ELSE /\ bounces' = Append(bounces, found[1])
             /\ last_bounce_time' = found[1].timestamp
             /\ last_bounce_frame' = found[1].frame_id

\* positions after append and the pop(0) past 60
PushWindowMutKeepOldest(pos, d) ==
    LET p == Append(pos, d)
    IN  IF Len(p) > WINDOW_CAP THEN SubSeq(p, 1, WINDOW_CAP) ELSE p
PushWindow(pos, d) ==
    LET p == Append(pos, d)
    IN  IF Len(p) > WINDOW_CAP THEN Tail(p) ELSE p

\* a tracker that refuses detections once the batch pass has run
add_detection_refusing(d) ==
    /\ ~finalized
    /\ positions' = PushWindow(positions, d)
    /\ all_positions' = Append(all_positions, d)
    /\ detect_bounce_pixel(PushWindow(positions, d))
    /\ returned' = None
    /\ UNCHANGED <<fps, bounce_cooldown, calibrator, finalized, query, verdict>>
\* a tracker whose history is bounded like its window
add_detection_mut_bounded_history(d) ==
    /\ positions' = PushWindow(positions, d)
    /\ all_positions' = PushWindow(all_positions, d)
    /\ detect_bounce_pixel(PushWindow(positions, d))
    /\ returned' = None
    /\ UNCHANGED <<fps, bounce_cooldown, calibrator, finalized, query, verdict>>
add_detection(d) ==
    /\ positions' = PushWindow(positions, d)
    /\ all_positions' = Append(all_positions, d)
    /\ detect_bounce_pixel(PushWindow(positions, d))
    /\ returned' = None
    /\ UNCHANGED <<fps, bounce_cooldown, calibrator, finalized, query, verdict>>

----------------------------------------------------------------------------
(* CourtCalibrator.  The calibrator's pixel points are whole pixels (mouse *)
(* clicks); a point is <<x, y>>, a homogeneous point <<x, y, w>> stands    *)
(* for the float pair (x/w, y/w), and a 3x3 matrix is kept up to scale as  *)
(* integer rows: cv2 scales it to m[3][3] = 1, the model to coprime        *)
(* integers with m[3][3] > 0.                                              *)

\* CourtCalibrator.__init__
Uncalibrated ==
    [pixel_points |-> <<>>, court_points |-> <<>>,
     transform_matrix |-> None, inverse_matrix |-> None]

\* far left, far right, near right, near left corner of the singles court
default_court_points ==
    << <<-SINGLES_HALF_WIDTH, HALF_LENGTH>>, <<SINGLES_HALF_WIDTH, HALF_LENGTH>>,
       <<SINGLES_HALF_WIDTH, -HALF_LENGTH>>, <<-SINGLES_HALF_WIDTH, -HALF_LENGTH>> >>

RECURSIVE GCD(_, _)
GCD(a, b) == IF b = 0 THEN a ELSE GCD(b, a % b)

RECURSIVE GcdOfSeq(_)
GcdOfSeq(s) == IF s = <<>> THEN 0 ELSE GCD(Abs(Head(s)), GcdOfSeq(Tail(s)))

Dot3(r, p) == r[1] * p[1] + r[2] * p[2] + r[3] * p[3]
MatVec(m, p) == <<Dot3(m[1], p), Dot3(m[2], p), Dot3(m[3], p)>>
Column(m, j) == <<m[1][j], m[2][j], m[3][j]>>
MatMul(a, b) == [i \in 1..3 |-> [j \in 1..3 |-> Dot3(a[i], Column(b, j))]]

Adjugate(m) ==
    << <<m[2][2] * m[3][3] - m[2][3] * m[3][2],
         m[1][3] * m[3][2] - m[1][2] * m[3][3],
         m[1][2] * m[2][3] - m[1][3] * m[2][2]>>,
       <<m[2][3] * m[3][1] - m[2][1] * m[3][3],
         m[1][1] * m[3][3] - m[1][3] * m[3][1],
         m[1][3] * m[2][1] - m[1][1] * m[2][3]>>,
       <<m[2][1] * m[3][2] - m[2][2] * m[3][1],
         m[1][2] * m[3][1] - m[1][1] * m[3][2],
         m[1][1] * m[2][2] - m[1][2] * m[2][1]>> >>

\* the same matrix up to scale: coprime entries, m[3][3] not negative
Scale(m) ==
    LET g == GcdOfSeq(m[1] \o m[2] \o m[3])
        s == IF m[3][3] < 0 THEN -1 ELSE 1
    IN  IF g = 0 THEN m
        ELSE [i \in 1..3 |-> [j \in 1..3 |-> s * (m[i][j] \div g)]]

\* the projective map that takes the unit square (0,0), (1,0), (1,1), (0,1)
\* to the corners q[1] .. q[4], no three of which are on one line
UnitSquareTo(q) ==
    LET dx1 == q[2][1] - q[3][1]
        dx2 == q[4][1] - q[3][1]
        dy1 == q[2][2] - q[3][2]
        dy2 == q[4][2] - q[3][2]
        sx == q[1][1] - q[2][1] + q[3][1] - q[4][1]
        sy == q[1][2] - q[2][2] + q[3][2] - q[4][2]
        k == GcdOfSeq(<<sx * dy2 - dx2 * sy, dx1 * sy - sx * dy1, dx1 * dy2 - dx2 * dy1>>)
        g == (sx * dy2 - dx2 * sy) \div k
        h == (dx1 * sy - sx * dy1) \div k
        d == (dx1 * dy2 - dx2 * dy1) \div k
    IN  << <<(q[2][1] - q[1][1]) * d + g * q[2][1],
             (q[4][1] - q[1][1]) * d + h * q[4][1], q[1][1] * d>>,
           <<(q[2][2] - q[1][2]) * d + g * q[2][2],
             (q[4][2] - q[1][2]) * d + h * q[4][2], q[1][2] * d>>,
           <<g, h, d>> >>

Collinear(a, b, c) ==
    (b[1] - a[1]) * (c[2] - a[2]) = (b[2] - a[2]) * (c[1] - a[1])
AllOnOneLine(q) ==
    \A i, j, k \in 1..4 : Collinear(q[i], q[j], q[k])
GeneralPosition(q) ==
    \A i, j, k \in 1..4 : (i < j /\ j < k) => ~Collinear(q[i], q[j], q[k])
HasDuplicate(q) == \E i, j \in 1..4 : i < j /\ q[i] = q[j]

\* the line through the homogeneous points a and b, as a row
LineThrough(a, b) ==
    <<a[2] * b[3] - a[3] * b[2], a[3] * b[1] - a[1] * b[3], a[1] * b[2] - a[2] * b[1]>>

\* what cv2 returns when the 8 equations have no unique solution: the
\* solution vector is set to zero and m[3][3] to 1; nothing is raised
ZeroSolution == << <<0, 0, 0>>, <<0, 0, 0>>, <<0, 0, 1>> >>

\* cv2.getPerspectiveTransform(src, dst): the solution of the 8 linear
\* equations of the 4 correspondences with m[3][3] = 1.
\*   no three points of src, nor of dst, on one line: the homography;
\*   all of src, or all of dst, on one line, or a point of src twice: the
\*     equations are singular;
\*   one point of dst twice, the others apart: the matrix of rank 1 that
\*     takes everything to that point and src[k], src[l] to nothing.
\* Sets in which exactly three distinct points are on one line are not
\* drawn by this model.
getPerspectiveTransform(src, dst) ==
    CASE GeneralPosition(src) /\ GeneralPosition(dst) ->
            LET m == Scale(MatMul(Scale(UnitSquareTo(dst)),
                                  Scale(Adjugate(Scale(UnitSquareTo(src))))))
            IN  IF m[3][3] = 0 THEN ZeroSolution ELSE m
      [] AllOnOneLine(src) \/ AllOnOneLine(dst) -> ZeroSolution
      [] HasDuplicate(src) /\ GeneralPosition(dst) -> ZeroSolution
      [] GeneralPosition(src) /\ HasDuplicate(dst) /\ ~AllOnOneLine(dst) ->
            LET ij == CHOOSE p \in (1..4) \X (1..4) : p[1] < p[2] /\ dst[p[1]] = dst[p[2]]
                kl == CHOOSE p \in (1..4) \X (1..4) :
                          p[1] < p[2] /\ {p[1], p[2]} \cap {ij[1], ij[2]} = {}
                n == LineThrough(<<src[kl[1]][1], src[kl[1]][2], 1>>,
                                 <<src[kl[2]][1], src[kl[2]][2], 1>>)
                p == <<dst[ij[1]][1], dst[ij[1]][2], 1>>
                m == Scale([i \in 1..3 |-> [j \in 1..3 |-> p[i] * n[j]]])
            IN  IF m[3][3] = 0 THEN ZeroSolution ELSE m

\* _compute_transform on the calibrator cal: the calibrator afterwards, and
\* whether ValueError was raised
compute_transform_mut_same_direction(cal) ==
    IF Len(cal.pixel_points) # 4 \/ Len(cal.court_points) # 4
    THEN [raised |-> TRUE, cal |-> cal]
    ELSE [raised |-> FALSE,
          cal |-> [cal EXCEPT
                     !.transform_matrix =
                         Some(getPerspectiveTransform(cal.pixel_points, cal.court_points)),
                     !.inverse_matrix =
                         Some(getPerspectiveTransform(cal.pixel_points, cal.court_points))]]
compute_transform(cal) ==
    IF Len(cal.pixel_points) # 4 \/ Len(cal.court_points) # 4
    THEN [raised |-> TRUE, cal |-> cal]
    ELSE [raised |-> FALSE,
          cal |-> [cal EXCEPT
                     !.transform_matrix =
                         Some(getPerspectiveTransform(cal.pixel_points, cal.court_points)),
                     !.inverse_matrix =
                         Some(getPerspectiveTransform(cal.court_points, cal.pixel_points))]]

\* cv2.perspectiveTransform of one homogeneous point by the 3x3 matrix m;
\* cv2 divides by the third coordinate, and returns 0 when that is 0
PerspectiveTransform(m, p) ==
    LET r == MatVec(m, p)
        g == GcdOfSeq(r)
        s == IF r[3] < 0 THEN -1 ELSE 1
    IN  IF r[3] = 0 THEN <<0, 0, 1>>
        ELSE <<s * (r[1] \div g), s * (r[2] \div g), s * (r[3] \div g)>>

\* pixel_to_court and court_to_pixel: the point returned, or ValueError
pixel_to_court(cal, p) ==
    IF cal.transform_matrix = None THEN [raised |-> TRUE, value |-> <<>>]
    ELSE [raised |-> FALSE, value |-> PerspectiveTransform(Val(cal.transform_matrix), p)]

court_to_pixel(cal, c) ==
    IF cal.inverse_matrix = None THEN [raised |-> TRUE, value |-> <<>>]
    ELSE [raised |-> FALSE, value |-> PerspectiveTransform(Val(cal.inverse_matrix), c)]

\* <<court_x, court_y>> of the pixel point (px, py), given in 1/60 pixel,
\* after the caller's try/except: None, None when pixel_to_court raises;
\* the floats are kept to the millimetre
CourtOfMutOrigin(cal, px, py) == <<Some(0), Some(0)>>
CourtOf(cal, px, py) ==
    LET r == pixel_to_court(cal, <<px, py, 60>>)
    IN  IF r.raised THEN <<None, None>>
        ELSE <<Some(r.value[1] \div r.value[3]), Some(r.value[2] \div r.value[3])>>

\* save: the record written to the file, the calibrator's four fields
save(cal) ==
    Some([valid |-> TRUE,
          pixel_points |-> cal.pixel_points, court_points |-> cal.court_points,
          transform_matrix |-> cal.transform_matrix,
          inverse_matrix |-> cal.inverse_matrix])

\* load from the file: the calibrator afterwards and the value returned.
\* No file, or a file that is not a calibration record, raises inside the
\* try before anything is assigned; a matrix that is null in the record
\* leaves the calibrator's matrix as it was.
load(cal, file) ==
    IF file = None \/ ~Val(file).valid
    THEN [ok |-> FALSE, cal |-> cal]
    ELSE [ok |-> TRUE,
          cal |-> [pixel_points |-> Val(file).pixel_points,
                   court_points |-> Val(file).court_points,
                   transform_matrix |->
                       IF Val(file).transform_matrix # None
                       THEN Val(file).transform_matrix ELSE cal.transform_matrix,
                   inverse_matrix |->
                       IF Val(file).inverse_matrix # None
                       THEN Val(file).inverse_matrix ELSE cal.inverse_matrix]]

\* calibrate_interactive, from the points clicked since the last reset and
\* the key that ends the loop: 's' with 4 points on the image, or 'q'
calibrate_interactive(cal, clicks, key) ==
    LET clicked == [cal EXCEPT !.pixel_points = clicks]
    IN  IF key = "s" /\ Len(clicks) = 4
        THEN [ok |-> TRUE,
              cal |-> compute_transform(
                          [clicked EXCEPT !.court_points = default_court_points]).cal]
        ELSE [ok |-> FALSE, cal |-> clicked]

----------------------------------------------------------------------------
(* BallTracker: interpolation and the batch pass *)

\* the detections inserted between p1 and p2, j = 1 .. frame_gap - 1
Synthetic(p1, p2, j, cal) ==
    LET frame_gap == p2.frame_id - p1.frame_id
        px == p1.pixel_x + (j * (p2.pixel_x - p1.pixel_x)) \div frame_gap
        py == p1.pixel_y + (j * (p2.pixel_y - p1.pixel_y)) \div frame_gap
        c == CourtOf(cal, px, py)
    IN  [frame_id |-> p1.frame_id + j,
         timestamp |-> p1.timestamp + (j * (p2.timestamp - p1.timestamp)) \div frame_gap,
         pixel_x |-> px, pixel_y |-> py,
         court_x |-> c[1], court_y |-> c[2],
         confidence |-> INTERP_CONFIDENCE,
         bbox_width |-> p1.bbox_width, bbox_height |-> p1.bbox_height]

\* 3 < frame_gap <= 15
GapIsFilledMutNoUpperLimit(frame_gap) == INTERP_MIN_GAP < frame_gap
GapIsFilledMutFromThree(frame_gap) ==
    INTERP_MIN_GAP <= frame_gap /\ frame_gap <= INTERP_MAX_GAP
GapIsFilled(frame_gap) == INTERP_MIN_GAP < frame_gap /\ frame_gap <= INTERP_MAX_GAP

FillGap(p1, p2, cal) ==
    LET frame_gap == p2.frame_id - p1.frame_id
    IN  IF GapIsFilled(frame_gap)
        THEN [j \in 1..(frame_gap - 1) |-> Synthetic(p1, p2, j, cal)]
        ELSE <<>>

RECURSIVE InterpolateFrom(_, _, _)
InterpolateFrom(all, i, cal) ==
    IF i >= Len(all) THEN <<all[Len(all)]>>
    ELSE <<all[i]>> \o FillGap(all[i], all[i+1], cal) \o InterpolateFrom(all, i + 1, cal)

interpolate_trajectory(all, cal) ==
    IF Len(all) < 2 THEN all ELSE InterpolateFrom(all, 1, cal)

\* abs(b.timestamp - bounce_detection.timestamp) < self.bounce_cooldown for some b
IsDuplicateMutNever(bs, d, cooldown) == FALSE
IsDuplicate(bs, d, cooldown) ==
    \E k \in 1..Len(bs) : Abs(bs[k].timestamp - d.timestamp) < cooldown

\* the loop over i, c = i + 1 the centre in 1-based indexing
RECURSIVE BatchScanMutTimeGate(_, _, _, _, _)
BatchScanMutTimeGate(full, c, existing, additional, cooldown) ==
    IF c > Len(full) - 3 THEN additional
    ELSE LET window == SubSeq(full, c - 3, c + 3)
             bd == window[4]
             accept ==
                 /\ ~TimeDiscontinuous(window)
                 /\ IsLocalMax(window, BATCH_MIN_CHANGE)
                 /\ ~IsDuplicate(existing \o additional, bd, cooldown)
                 /\ HasCourt(bd)
                 /\ is_valid_court_position(Val(bd.court_x), Val(bd.court_y))
         IN  BatchScanMutTimeGate(full, c + 1, existing,
                       IF accept THEN Append(additional, MakeBounce(bd)) ELSE additional,
                       cooldown)
RECURSIVE BatchScanMutStreamingMargin(_, _, _, _, _)
BatchScanMutStreamingMargin(full, c, existing, additional, cooldown) ==
    IF c > Len(full) - 3 THEN additional
    ELSE LET window == SubSeq(full, c - 3, c + 3)
             bd == window[4]
             accept ==
                 /\ IsLocalMax(window, STREAM_MIN_CHANGE)
                 /\ ~IsDuplicate(existing \o additional, bd, cooldown)
                 /\ HasCourt(bd)
                 /\ is_valid_court_position(Val(bd.court_x), Val(bd.court_y))
         IN  BatchScanMutStreamingMargin(full, c + 1, existing,
                       IF accept THEN Append(additional, MakeBounce(bd)) ELSE additional,
                       cooldown)
RECURSIVE BatchScan(_, _, _, _, _)
BatchScan(full, c, existing, additional, cooldown) ==
    IF c > Len(full) - 3 THEN additional
    ELSE LET window == SubSeq(full, c - 3, c + 3)
             bd == window[4]
             accept ==
                 /\ IsLocalMax(window, BATCH_MIN_CHANGE)
                 /\ ~IsDuplicate(existing \o additional, bd, cooldown)
                 /\ HasCourt(bd)
                 /\ is_valid_court_position(Val(bd.court_x), Val(bd.court_y))
         IN  BatchScan(full, c + 1, existing,
                       IF accept THEN Append(additional, MakeBounce(bd)) ELSE additional,
                       cooldown)

\* list.sort(key=frame_id): stable, so b goes after every element whose
\* frame_id is not larger
RECURSIVE InsertByFrame(_, _)
InsertByFrame(sorted, b) ==
    IF sorted = <<>> THEN <<b>>
    ELSE IF Head(sorted).frame_id <= b.frame_id
         THEN <<Head(sorted)>> \o InsertByFrame(Tail(sorted), b)
         ELSE <<b>> \o sorted

RECURSIVE SortFrom(_, _)
SortFrom(done, rest) ==
    IF rest = <<>> THEN done ELSE SortFrom(InsertByFrame(done, Head(rest)), Tail(rest))

SortByFrameMutNoSort(bs) == bs
SortByFrame(bs) == SortFrom(<<>>, bs)

AdditionalBounces(all, existing, cal, cooldown) ==
    LET full_trajectory == interpolate_trajectory(all, cal)
    IN  IF Len(full_trajectory) < RECENT_LEN THEN <<>>
        ELSE BatchScan(full_trajectory, 4, existing, <<>>, cooldown)

\* the list detect_bounces_from_trajectory returns
AllBounces(all, existing, cal, cooldown) ==
    LET full_trajectory == interpolate_trajectory(all, cal)
    IN  IF Len(full_trajectory) < RECENT_LEN THEN existing
        ELSE SortByFrame(existing \o BatchScan(full_trajectory, 4, existing, <<>>, cooldown))

\* a batch pass that keeps what it found in the streaming list
detect_bounces_from_trajectory_mut_stores(cal) ==
    /\ calibrator' = cal
    /\ returned' = Some(AllBounces(all_positions, bounces, cal, bounce_cooldown))
    /\ finalized' = TRUE
    /\ bounces' = AllBounces(all_positions, bounces, cal, bounce_cooldown)
    /\ UNCHANGED <<fps, bounce_cooldown, positions, all_positions,
                   last_bounce_time, last_bounce_frame, query, verdict>>
detect_bounces_from_trajectory(cal) ==
    /\ calibrator' = cal
    /\ returned' = Some(AllBounces(all_positions, bounces, cal, bounce_cooldown))
    /\ finalized' = TRUE
    /\ UNCHANGED <<tracker, query, verdict>>

----------------------------------------------------------------------------
(* is_point_in_bounds called on its own *)

classify(x, y, match_type) ==
    /\ query' = <<x, y, match_type>>
    /\ verdict' = Some(is_point_in_bounds(x, y, match_type))
    /\ UNCHANGED <<tracker, calibrator, returned, finalized, calibration_file, video>>

----------------------------------------------------------------------------
(* The callers: process_video feeding the tracker *)

\* the Detection _detect_ball builds for a ball seen g frames after the last
\* one (the first at frame 0), at pixel-y y, with court coordinates c
NewDetection(g, y, c) ==
    LET frame == IF all_positions = <<>> THEN 0
                 ELSE all_positions[Len(all_positions)].frame_id + g
    IN  [frame_id |-> frame,
         timestamp |-> (frame * 1000) \div fps,
         pixel_x |-> 320 * 60, pixel_y |-> y,
         court_x |-> c[1], court_y |-> c[2],
         confidence |-> 90, bbox_width |-> 600, bbox_height |-> 600]

\* a calibrator that holds only a forward matrix, of a camera looking
\* straight down: 60 mm per pixel across, 300 mm per pixel along the court,
\* the image centre (320 px, 20 px) on the net
TopDown ==
    [pixel_points |-> <<>>, court_points |-> <<>>,
     transform_matrix |-> Some(<< <<60, 0, -19200>>, <<0, -300, 6000>>, <<0, 0, 1>> >>),
     inverse_matrix |-> None]

\* the same camera with the court far out of the picture
OffCourt ==
    [pixel_points |-> <<>>, court_points |-> <<>>,
     transform_matrix |-> Some(<< <<60, 0, -19200>>, <<0, -300, 40000>>, <<0, 0, 1>> >>),
     inverse_matrix |-> None]

InitTracker(cooldown) ==
    /\ fps = 10
    /\ bounce_cooldown = cooldown
    /\ positions = <<>>
    /\ all_positions = <<>>
    /\ bounces = <<>>
    /\ last_bounce_time = -1000
    /\ last_bounce_frame = -1
    /\ calibrator = Uncalibrated
    /\ returned = None
    /\ finalized = FALSE
    /\ query = None
    /\ verdict = None
    /\ frame_id = 0
    /\ paused = FALSE
    /\ pending = <<>>
    /\ result = None

\* one add_detection, its detection drawn from the inputs In
Push(In, max) ==
    /\ Len(all_positions) < max
    /\ \E i \in In : add_detection(NewDetection(i[1], i[2], i[3]))
    /\ UNCHANGED <<calibration_file, video>>

Finalize(Cals) ==
    /\ \E cal \in Cals : detect_bounces_from_trajectory(cal)
    /\ UNCHANGED <<calibration_file, video>>

OnCourt == <<Some(0), Some(0)>>
NoCourt == <<None, None>>
\* out by 1 m, inside the 3 m margin
InMargin == <<Some(5115), Some(0)>>
\* out by 4 m, beyond the margin
Beyond == <<Some(0), Some(-15885)>>

----------------------------------------------------------------------------
(* Spec: one session as process_video runs it, add_detection per detection *)
(* and then the batch pass.  At 10 fps a frame is 100 ms; a frame gap of 5 *)
(* is a dropout that is interpolated and lasts exactly the 0.5 s of the    *)
(* cooldown and of the continuity gate.  Pixel-y is 0 px or 40 px.         *)

TimingInputs == {<<1, 0, OnCourt>>, <<1, 2400, OnCourt>>, <<5, 2400, OnCourt>>}

\* the tracker driven directly: no file, process_video not running
Init == InitTracker(500) /\ calibration_file = None /\ pc = "idle"
Next ==
    \/ ~finalized /\ Push(TimingInputs, MaxPush)
    \/ Finalize({TopDown, OffCourt})
Spec == Init /\ [][Next]_vars

----------------------------------------------------------------------------
(* SpecSameFrame: as Spec, with frames in which the detector reports two   *)
(* balls: a frame gap of 0 pushes a second detection, at 40 px, with the   *)
(* frame_id and timestamp of the one before it.                            *)

SameFrameInputs == {<<0, 2400, OnCourt>>, <<1, 0, OnCourt>>, <<5, 2400, OnCourt>>}

NextSameFrame ==
    \/ ~finalized /\ Push(SameFrameInputs, MaxPush)
    \/ Finalize({TopDown})
SpecSameFrame == Init /\ [][NextSameFrame]_vars

----------------------------------------------------------------------------
(* SpecCourt: sessions whose detections differ in their court coordinates *)

CourtInputs ==
    {<<1, 0, OnCourt>>, <<1, 2400, NoCourt>>, <<1, 2400, InMargin>>, <<5, 2400, Beyond>>}

NextCourt ==
    \/ ~finalized /\ Push(CourtInputs, MaxPushShort)
    \/ Finalize({Uncalibrated, TopDown, OffCourt})
SpecCourt == Init /\ [][NextCourt]_vars

----------------------------------------------------------------------------
(* SpecReuse: a caller that goes on pushing after the batch pass *)

ReuseInputs == {<<1, 0, OnCourt>>, <<1, 2400, OnCourt>>}

NextReuse ==
    \/ Push(ReuseInputs, MaxPushShort)
    \/ Finalize({TopDown})
SpecReuse == Init /\ [][NextReuse]_vars

----------------------------------------------------------------------------
(* SpecShape: sessions of up to 7 detections at a uniform frame interval,  *)
(* all on court, whose pixel-y never dips and rises again: it rises, or    *)
(* falls, or rises and then falls.  Pixel-y is 0, 5, 10, 20, 25 or 30 px.  *)

ShapeInputs == {<<g, y, OnCourt>> : g \in {1, 5}, y \in {0, 300, 600, 1200, 1500, 1800}}

PixelYsWith(y) == [k \in 1..Len(all_positions) |-> all_positions[k].pixel_y] \o <<y>>

NoValley(ys) ==
    ~\E i, j, k \in 1..Len(ys) : i < j /\ j < k /\ ys[j] < ys[i] /\ ys[j] < ys[k]

UniformGap(g) ==
    Len(all_positions) >= 2 =>
        g = all_positions[2].frame_id - all_positions[1].frame_id

ShapePush ==
    /\ Len(all_positions) < MaxPushShort
    /\ \E i \in ShapeInputs :
          /\ UniformGap(i[1])
          /\ NoValley(PixelYsWith(i[2]))
          /\ add_detection(NewDetection(i[1], i[2], i[3]))
    /\ UNCHANGED <<calibration_file, video>>

NextShape ==
    \/ ~finalized /\ ShapePush
    \/ Finalize({TopDown})
SpecShape == Init /\ [][NextShape]_vars

----------------------------------------------------------------------------
(* SpecBounds: is_point_in_bounds on a grid of court points around the     *)
(* lines of both courts                                                    *)

GridX == {-20000, -5485, -5000, -4115, 0, 4115, 5000, 5485, 20000}
GridY == {-13000, -11885, -11000, 0, 7770, 11885, 13000}
MatchTypes == {"singles", "doubles"}

NextBounds ==
    \E x \in GridX, y \in GridY, m \in MatchTypes : classify(x, y, m)
SpecBounds == Init /\ [][NextBounds]_vars

----------------------------------------------------------------------------
(* HawkEyeVideoProcessor.process_video, one step per action.  pc is        *)
(*   "start"       before the calibration (line 748)                       *)
(*   "calibrated"  after it (line 769)                                     *)
(*   "loop"        at the top of the frame loop (line 799)                 *)
(*   "push"        in the frame, handing its detections over (line 812)    *)
(*   "post"        after the loop (line 848)                               *)
(*   "finished", "cancelled", "calibrated_only": returned at line 871,     *)
(*   760, 771; "raised": ValueError at line 734 or 755                     *)

\* frames read from the video in one run
MaxFrames == 5
\* frames read from the video in one long run
MaxFramesLong == 92

\* TrackingResult(video_path, fps, total_frames)
EmptyResult == [detections |-> <<>>, bounces |-> <<>>]

\* _detect_ball: one Detection per box the detector reports in the frame,
\* a box given by its centre <<cx, cy>> in 1/60 pixel
detect_ball(cal, frame, boxes) ==
    [k \in 1..Len(boxes) |->
        LET c == CourtOf(cal, boxes[k][1], boxes[k][2])
        IN  [frame_id |-> frame,
             timestamp |-> (frame * 1000) \div fps,
             pixel_x |-> boxes[k][1], pixel_y |-> boxes[k][2],
             court_x |-> c[1], court_y |-> c[2],
             confidence |-> 90, bbox_width |-> 600, bbox_height |-> 600]]

\* the video cannot be opened, or its first frame cannot be read
VideoUnreadable ==
    /\ pc = "start"
    /\ pc' = "raised"
    /\ UNCHANGED <<tracker, calibrator, returned, finalized, query, verdict,
                   calibration_file, frame_id, paused, pending, result>>

\* calibration_path names a file that exists: load it, whatever load returns
LoadCalibration ==
    /\ pc = "start"
    /\ calibration_file # None
    /\ calibrator' = load(calibrator, calibration_file).cal
    /\ pc' = "calibrated"
    /\ UNCHANGED <<tracker, returned, finalized, query, verdict,
                   calibration_file, frame_id, paused, pending, result>>

\* no such file: calibrate on the first frame, save on success, return an
\* empty result when the user quits
Calibrate(Sessions) ==
    /\ pc = "start"
    /\ \E u \in Sessions :
          LET r == calibrate_interactive(calibrator, u[1], u[2])
          IN  /\ calibrator' = r.cal
              /\ IF r.ok
                 THEN /\ calibration_file' = save(r.cal)
                      /\ pc' = "calibrated"
                      /\ result' = result
                 ELSE /\ calibration_file' = calibration_file
                      /\ pc' = "cancelled"
                      /\ result' = Some(EmptyResult)
    /\ UNCHANGED <<tracker, returned, finalized, query, verdict,
                   frame_id, paused, pending>>

\* calibrate_only
CalibrateOnly ==
    /\ pc = "calibrated"
    /\ pc' = "calibrated_only"
    /\ result' = Some(EmptyResult)
    /\ UNCHANGED <<tracker, calibrator, returned, finalized, query, verdict,
                   calibration_file, frame_id, paused, pending>>

\* self.tracker = BallTracker(fps=fps), the result, the counters
StartTracking ==
    /\ pc = "calibrated"
    /\ positions' = <<>>
    /\ all_positions' = <<>>
    /\ bounces' = <<>>
    /\ last_bounce_time' = -1000
    /\ last_bounce_frame' = -1
    /\ result' = Some(EmptyResult)
    /\ frame_id' = 0
    /\ paused' = FALSE
    /\ pc' = "loop"
    /\ UNCHANGED <<fps, bounce_cooldown, calibrator, returned, finalized, query,
                   verdict, calibration_file, pending>>

\* cap.read() gives a frame: detect the balls in it
ReadFrame(Boxes, max) ==
    /\ pc = "loop"
    /\ ~paused
    /\ frame_id < max
    /\ \E boxes \in Boxes : pending' = detect_ball(calibrator, frame_id, boxes)
    /\ pc' = "push"
    /\ UNCHANGED <<tracker, calibrator, returned, finalized, query, verdict,
                   calibration_file, frame_id, paused, result>>

\* cap.read() gives no frame: break
EndOfStream ==
    /\ pc = "loop"
    /\ ~paused
    /\ pc' = "post"
    /\ UNCHANGED <<tracker, calibrator, returned, finalized, query, verdict,
                   calibration_file, frame_id, paused, pending, result>>

\* for det in detections: result.detections.append(det); add_detection(det)
HandOver ==
    /\ pc = "push"
    /\ pending # <<>>
    /\ result' = Some([Val(result) EXCEPT !.detections = Append(@, Head(pending))])
    /\ add_detection(Head(pending))
    /\ pending' = Tail(pending)
    /\ UNCHANGED <<calibration_file, pc, frame_id, paused>>

\* the key handling at the end of an iteration: 'q' leaves the loop, the
\* space bar toggles the pause, any other key or none goes on
HandleKeyMutQuitReturns(key) ==
    /\ pc' = IF key = "q" THEN "finished" ELSE "loop"
    /\ paused' = IF key = " " THEN ~paused ELSE paused
HandleKey(key) ==
    /\ pc' = IF key = "q" THEN "post" ELSE "loop"
    /\ paused' = IF key = " " THEN ~paused ELSE paused

Keys == {"q", " ", "none"}

\* the detections of the frame are handed over: frame_id += 1, then the key
NextFrame ==
    /\ pc = "push"
    /\ pending = <<>>
    /\ frame_id' = frame_id + 1
    /\ \E key \in Keys : HandleKey(key)
    /\ UNCHANGED <<tracker, calibrator, returned, finalized, query, verdict,
                   calibration_file, pending, result>>

\* while paused no frame is read, and waitKey(0) waits for a key
PausedKey ==
    /\ pc = "loop"
    /\ paused
    /\ \E key \in Keys \ {"none"} : HandleKey(key)
    /\ UNCHANGED <<tracker, calibrator, returned, finalized, query, verdict,
                   calibration_file, frame_id, pending, result>>

\* result.bounces = self.tracker.detect_bounces_from_trajectory(self.calibrator)
PostProcess ==
    /\ pc = "post"
    /\ detect_bounces_from_trajectory(calibrator)
    /\ result' = Some([Val(result) EXCEPT
                          !.bounces = AllBounces(all_positions, bounces, calibrator,
                                                 bounce_cooldown)])
    /\ pc' = "finished"
    /\ UNCHANGED <<calibration_file, frame_id, paused, pending>>

----------------------------------------------------------------------------
(* SpecVideo: one run of process_video.  The image is 8 px wide; the ball  *)
(* is seen at x = 4 px, y = 0 px or y = 40 px, in some frames twice and in *)
(* some not at all.  The user clicks the corners of a trapezoid, or four   *)
(* points on one line, or quits; or a calibration file holds the           *)
(* trapezoid's points and no matrix.                                       *)

TrapezoidClicks == << <<2, 0>>, <<6, 0>>, <<8, 48>>, <<0, 48>> >>
CollinearClicks == << <<0, 0>>, <<2, 0>>, <<4, 0>>, <<6, 0>> >>

PointsOnlyFile ==
    Some([valid |-> TRUE,
          pixel_points |-> TrapezoidClicks, court_points |-> default_court_points,
          transform_matrix |-> None, inverse_matrix |-> None])

VideoSessions ==
    {<<TrapezoidClicks, "s">>, <<CollinearClicks, "s">>,
     <<SubSeq(TrapezoidClicks, 1, 2), "q">>}

Low == <<240, 0>>
High == <<240, 2400>>
VideoBoxes == {<<>>, <<Low>>, <<High>>, <<Low, Low>>}

InitVideo ==
    /\ InitTracker(500)
    /\ calibration_file \in {None, PointsOnlyFile}
    /\ pc = "start"

NextVideo ==
    \/ VideoUnreadable
    \/ LoadCalibration
    \/ Calibrate(VideoSessions)
    \/ CalibrateOnly
    \/ StartTracking
    \/ ReadFrame(VideoBoxes, MaxFrames)
    \/ EndOfStream
    \/ HandOver
    \/ NextFrame
    \/ PausedKey
    \/ PostProcess
SpecVideo == InitVideo /\ [][NextVideo]_vars

----------------------------------------------------------------------------
(* SpecLong: one long run of process_video after a calibration on the      *)
(* trapezoid.  The ball is seen in every frame but for three dropouts, of  *)
(* 4, 5 and 19 frames, so that consecutive detections are 5, 6 and 20      *)
(* frames apart; it drifts by half a pixel across and 2.5 px down per      *)
(* frame, modulo 4 frames, and is 40 px down every 8th frame; in frame 5   *)
(* of every 16 it may be reported twice.                                   *)

Dropouts == (9..12) \cup (25..29) \cup (41..59)

LongBox == <<240 + 30 * (frame_id % 4),
             IF frame_id % 8 = 3 THEN 2400 ELSE 150 * (frame_id % 4)>>

LongBoxes ==
    IF frame_id \in Dropouts THEN {<<>>}
    ELSE IF frame_id % 16 = 5 THEN {<<LongBox>>, <<LongBox, LongBox>>}
    ELSE {<<LongBox>>}

InitLong ==
    /\ InitTracker(500)
    /\ calibration_file = None
    /\ pc = "start"

NextLong ==
    \/ Calibrate({<<TrapezoidClicks, "s">>})
    \/ StartTracking
    \/ ReadFrame(LongBoxes, MaxFramesLong)
    \/ EndOfStream
    \/ HandOver
    \/ NextFrame
    \/ PausedKey
    \/ PostProcess
SpecLong == InitLong /\ [][NextLong]_vars

----------------------------------------------------------------------------
(* SpecCalib: a CourtCalibrator used on its own, as process_video and a    *)
(* test use it: calibrated on clicks, saved, loaded from a file someone    *)
(* wrote, its transform computed directly, and pixels of a 9 x 5 image     *)
(* taken to the court and back.                                            *)
(* A quit session leaves 3 pixel points behind, so that a direct           *)
(* _compute_transform meets a calibrator without 4 and 4 points.           *)

SmallTrapezoid == << <<2, 0>>, <<6, 0>>, <<8, 4>>, <<0, 4>> >>
SmallRectangle == << <<1, 1>>, <<5, 1>>, <<5, 3>>, <<1, 3>> >>
DoubleClick == << <<2, 0>>, <<2, 0>>, <<8, 4>>, <<0, 4>> >>

CalibSessions ==
    {<<SmallTrapezoid, "s">>, <<SmallRectangle, "s">>, <<CollinearClicks, "s">>,
     <<DoubleClick, "s">>, <<SubSeq(SmallTrapezoid, 1, 3), "q">>}

\* files written by other programs: the points of the trapezoid and no
\* matrix; not a calibration record
CalibFiles ==
    {Some([valid |-> TRUE,
           pixel_points |-> SmallTrapezoid, court_points |-> default_court_points,
           transform_matrix |-> None, inverse_matrix |-> None]),
     Some([valid |-> FALSE])}

ImagePoints == {<<x, y, 1>> : x \in {0, 3, 4, 7}, y \in {0, 2, 4}}

Called(name, ok) == Some([call |-> name, ok |-> ok])

CalibratorInteractive ==
    /\ \E u \in CalibSessions :
          LET r == calibrate_interactive(calibrator, u[1], u[2])
          IN  /\ calibrator' = r.cal
              /\ returned' = Called("calibrate_interactive", r.ok)
    /\ verdict' = None
    /\ UNCHANGED <<tracker, finalized, query, calibration_file, video>>

CalibratorCompute ==
    /\ calibrator' = compute_transform(calibrator).cal
    /\ returned' = Called("_compute_transform", ~compute_transform(calibrator).raised)
    /\ verdict' = None
    /\ UNCHANGED <<tracker, finalized, query, calibration_file, video>>

CalibratorSave ==
    /\ calibration_file' = save(calibrator)
    /\ returned' = Called("save", TRUE)
    /\ verdict' = None
    /\ UNCHANGED <<tracker, calibrator, finalized, query, video>>

CalibratorLoad ==
    /\ calibrator' = load(calibrator, calibration_file).cal
    /\ returned' = Called("load", load(calibrator, calibration_file).ok)
    /\ verdict' = None
    /\ UNCHANGED <<tracker, finalized, query, calibration_file, video>>

FileWritten ==
    /\ \E f \in CalibFiles : calibration_file' = f
    /\ returned' = Called("file written", TRUE)
    /\ verdict' = None
    /\ UNCHANGED <<tracker, calibrator, finalized, query, video>>

\* court_to_pixel(*pixel_to_court(px, py)), either of which may raise.
\* verdict holds the outcome of the last round trip since the last call on
\* the calibrator or its file, returned that call and its result.
RoundTrip ==
    /\ \E p \in ImagePoints :
          LET c == pixel_to_court(calibrator, p)
          IN  /\ query' = p
              /\ verdict' = Some([court |-> c,
                                  pixel |-> IF c.raised THEN c
                                            ELSE court_to_pixel(calibrator, c.value)])
    /\ UNCHANGED <<tracker, calibrator, returned, finalized, calibration_file, video>>

NextCalib ==
    \/ CalibratorInteractive
    \/ CalibratorCompute
    \/ CalibratorSave
    \/ CalibratorLoad
    \/ FileWritten
    \/ RoundTrip
SpecCalib == Init /\ [][NextCalib]_vars

----------------------------------------------------------------------------
(* SpecDropout: sessions of up to 7 detections, all on court, in which the *)
(* ball is lost for 4 frames (and found again at 0 px, a gap that is       *)
(* interpolated) or for 15 frames (and found again at 40 px, a gap of      *)
(* 1.6 s that is not).                                                     *)

DropoutInputs ==
    {<<1, 0, OnCourt>>, <<1, 2400, OnCourt>>, <<5, 0, OnCourt>>, <<16, 2400, OnCourt>>}

NextDropout ==
    \/ ~finalized /\ Push(DropoutInputs, MaxPushShort)
    \/ Finalize({TopDown})
SpecDropout == Init /\ [][NextDropout]_vars

----------------------------------------------------------------------------
(* SpecGaps: short sessions whose consecutive detections are 1, 3, 4, 15   *)
(* or 16 frames apart, the ball at 0 px or at 40 px, and the batch pass    *)
(* after any of them.                                                      *)

\* detections pushed in a session of SpecGaps
MaxPushGaps == 5

GapInputs ==
    {<<1, 0, OnCourt>>, <<3, 2400, OnCourt>>, <<4, 0, OnCourt>>,
     <<15, 2400, OnCourt>>, <<16, 0, OnCourt>>}

NextGaps ==
    \/ ~finalized /\ Push(GapInputs, MaxPushGaps)
    \/ Finalize({TopDown})
SpecGaps == Init /\ [][NextGaps]_vars

----------------------------------------------------------------------------
(* SpecCooldown: trackers built with a cooldown of 0.5 s (the default),    *)
(* 1 s, 1.7 s or 2 s, and sessions of up to 7 detections: the ball at 0 px *)
(* in the next frame, or at 40 px 5 frames later, on court, without court  *)
(* coordinates or 4 m behind the baseline.  The centre of the 7 is then    *)
(* 0.7 s or 1.1 s into the session.                                        *)

Cooldowns == {500, 1000, 1700, 2000}

CooldownInputs ==
    {<<1, 0, OnCourt>>, <<5, 2400, OnCourt>>, <<5, 2400, NoCourt>>, <<5, 2400, Beyond>>}

InitCooldown ==
    /\ \E cooldown \in Cooldowns : InitTracker(cooldown)
    /\ calibration_file = None
    /\ pc = "idle"

NextCooldown == Push(CooldownInputs, MaxPushShort)
SpecCooldown == InitCooldown /\ [][NextCooldown]_vars

----------------------------------------------------------------------------
(* SpecVerdict: sessions of up to 7 detections a frame apart, the ball at  *)
(* 0 px on court or at 40 px beside the court: 1 m outside the singles     *)
(* sideline, which is inside the doubles court, or 8 m from the centre     *)
(* line, which is within 3 m of the doubles court but not of the singles   *)
(* court.                                                                  *)

BetweenMargins == <<Some(8000), Some(0)>>

VerdictInputs ==
    {<<1, 0, OnCourt>>, <<1, 2400, InMargin>>, <<1, 2400, BetweenMargins>>}

NextVerdict ==
    \/ ~finalized /\ Push(VerdictInputs, MaxPushShort)
    \/ Finalize({TopDown})
SpecVerdict == Init /\ [][NextVerdict]_vars

----------------------------------------------------------------------------
(* Claims about is_point_in_bounds, under SpecBounds *)

\* the four margins of the latest query, written out from the court's
\* dimensions: left, right, far, near
QueryMargins ==
    LET x == query[1]
        y == query[2]
        hw == IF query[3] = "singles" THEN 4115 ELSE 5485
    IN  <<x + hw, hw - x, 11885 - y, y + 11885>>

MinOf(S) == CHOOSE m \in S : \A n \in S : m <= n

\* C2 (as claimed): the distance is the smallest margin, so >= 0, of a point
\* that is in, and minus the distance to the reported line, so a negative
\* number, of a point that is out.
C2_SignedDistanceAsClaimed ==
    verdict # None =>
        LET v == Val(verdict)
            m == MinOf({QueryMargins[i] : i \in 1..4})
            k == CHOOSE i \in 1..4 : LineOrder[i] = v.line_type
        IN  /\ v.is_in => v.distance = m /\ v.distance >= 0
            /\ ~v.is_in => v.distance = -Abs(QueryMargins[k]) /\ v.distance < 0

\* C3: is_in holds exactly when all four margins are >= 0, the half width
\* being 4.115 m for singles and 5.485 m for doubles; points on a line or
\* a corner are in.
C3_InIffMarginsNonNegative ==
    verdict # None =>
        (Val(verdict).is_in <=> \A i \in 1..4 : QueryMargins[i] >= 0)

\* C3 witness: the far right corner of the singles court was classified,
\* and is in
C3_CornerIsIn ==
    /\ query = <<4115, 11885, "singles">>
    /\ verdict # None
    /\ Val(verdict).is_in

LineIndex(line) == CHOOSE i \in 1..4 : LineOrder[i] = line

----------------------------------------------------------------------------
(* Claims about the tracker *)

\* the list the batch pass returned, in a state that follows the call
Final == Val(returned)
\* the trajectory the batch pass scanned
FullTrajectory == interpolate_trajectory(all_positions, calibrator)

\* the centre of the latest 7-detection window
Centre == positions[Len(positions) - 3]
LatestWindow == SubSeq(positions, Len(positions) - 6, Len(positions))

\* the latest window is continuous in time and bounce-shaped by the 15 px rule
LatestWindowShaped ==
    /\ Len(positions) >= 7
    /\ \A i \in 1..6 : LatestWindow[i+1].timestamp - LatestWindow[i].timestamp <= 500
    /\ 3 * Centre.pixel_y > LatestWindow[1].pixel_y + LatestWindow[2].pixel_y
                              + LatestWindow[3].pixel_y + 2700
    /\ 3 * Centre.pixel_y > LatestWindow[5].pixel_y + LatestWindow[6].pixel_y
                              + LatestWindow[7].pixel_y + 2700

\* the detection has a court position inside the 3 m margin
CourtInsideMargin(d) ==
    /\ d.court_x # None /\ d.court_y # None
    /\ Abs(Val(d.court_x)) <= 7115 /\ Abs(Val(d.court_y)) <= 14885

LatestWindowQualifies == LatestWindowShaped /\ CourtInsideMargin(Centre)

\* C1: after pushes in frame order and the batch pass, any two bounces of
\* the returned list are at least bounce_cooldown apart in time.
C1_FinalBouncesCooldownApart ==
    returned # None =>
        \A i, j \in 1..Len(Final) :
            i < j => Abs(Final[i].timestamp - Final[j].timestamp) >= bounce_cooldown

\* C1 witness: the returned list holds a streaming bounce and a batch bounce,
\* two of its bounces are exactly the cooldown apart, and a frame with two
\* detections was pushed
C1_TwoPassesContributed ==
    /\ returned # None
    /\ bounces # <<>>
    /\ Len(Final) > Len(bounces)
    /\ \E i, j \in 1..Len(Final) :
           Final[j].timestamp - Final[i].timestamp = bounce_cooldown
    /\ \E n \in 1..(Len(all_positions) - 1) :
           all_positions[n+1].timestamp = all_positions[n].timestamp

\* C7: a push whose window centre is less than bounce_cooldown after the
\* last accepted bounce records nothing, and the bounces of the streaming
\* list are pairwise at least bounce_cooldown apart.
C7_StreamingCooldown ==
    [][ /\ (/\ Len(positions') >= 7
            /\ positions'[Len(positions') - 3].timestamp - last_bounce_time
                   < bounce_cooldown)
           => bounces' = bounces
        /\ \A i, j \in 1..Len(bounces') :
              i < j => bounces'[j].timestamp - bounces'[i].timestamp >= bounce_cooldown
      ]_vars

\* C7 witness: a qualifying window 0.2 s after the last accepted bounce,
\* whose centre is not in the streaming list
C7_SecondWindowSuppressed ==
    /\ LatestWindowQualifies
    /\ bounces # <<>>
    /\ Centre.timestamp - last_bounce_time = 200
    /\ \A k \in 1..Len(bounces) : bounces[k].frame_id # Centre.frame_id

\* the centres the batch pass looks at, and those it would accept but for
\* the duplicate check: bounce-shaped by the 12 px rule, court position
\* inside the margin
BatchCentres(f) == 4..(Len(f) - 3)
BatchQualifies(f, c) ==
        /\ 3 * f[c].pixel_y > f[c-3].pixel_y + f[c-2].pixel_y + f[c-1].pixel_y + 2160
        /\ 3 * f[c].pixel_y > f[c+1].pixel_y + f[c+2].pixel_y + f[c+3].pixel_y + 2160
        /\ f[c].court_x # None /\ f[c].court_y # None
        /\ Abs(Val(f[c].court_x)) <= 7115 /\ Abs(Val(f[c].court_y)) <= 14885

SameEvent(b, d) ==
    /\ b.frame_id = d.frame_id /\ b.timestamp = d.timestamp
    /\ b.pixel_x = d.pixel_x /\ b.pixel_y = d.pixel_y
    /\ b.court_x = Val(d.court_x) /\ b.court_y = Val(d.court_y)

InStreaming(b) == \E k \in 1..Len(bounces) : bounces[k] = b

\* C6: the returned list is ascending in frame_id; it holds every streaming
\* bounce, in the streaming list's order; each further element is the centre
\* of a batch window that qualifies; and a qualifying batch centre missing
\* from it is within the cooldown of an element that is in it.
C6_FinalIsSortedMerge ==
    returned # None =>
      LET f == FullTrajectory IN
        /\ \A i, j \in 1..Len(Final) : i < j => Final[i].frame_id <= Final[j].frame_id
        /\ \E pos \in [1..Len(bounces) -> 1..Len(Final)] :
              /\ \A k \in 1..Len(bounces) : Final[pos[k]] = bounces[k]
              /\ \A k, l \in 1..Len(bounces) : k < l => pos[k] < pos[l]
        /\ \A i \in 1..Len(Final) :
              InStreaming(Final[i])
              \/ \E c \in BatchCentres(f) :
                    BatchQualifies(f, c) /\ SameEvent(Final[i], f[c])
        /\ \A c \in BatchCentres(f) :
              BatchQualifies(f, c) =>
                  \E i \in 1..Len(Final) :
                      Abs(Final[i].timestamp - f[c].timestamp) < bounce_cooldown

\* C6 witness: a bounce found only by the batch pass precedes a streaming
\* bounce in the returned list
C6_BatchBounceBeforeStreaming ==
    /\ returned # None
    /\ \E i, j \in 1..Len(Final) :
           i < j /\ ~InStreaming(Final[i]) /\ InStreaming(Final[j])

\* C9: in the returned list no two bounces have the same timestamp (a
\* window the streaming pass reported is not reported again), and a bounce
\* added by the batch pass is at least bounce_cooldown away from every
\* streaming bounce and from every other bounce the batch pass added.
C9_BatchDuplicatesDropped ==
    returned # None =>
        /\ Cardinality({Final[i].timestamp : i \in 1..Len(Final)}) = Len(Final)
        /\ Len(Final) >= Len(bounces)
        /\ \A i \in 1..Len(Final) :
              ~InStreaming(Final[i]) =>
                  /\ \A k \in 1..Len(bounces) :
                        Abs(bounces[k].timestamp - Final[i].timestamp) >= bounce_cooldown
                  /\ \A j \in 1..Len(Final) :
                        (j # i /\ ~InStreaming(Final[j])) =>
                            Abs(Final[j].timestamp - Final[i].timestamp) >= bounce_cooldown

\* C9 witness: the batch pass met a qualifying centre that the streaming
\* pass had reported, and another within the cooldown of a bounce it had
\* added itself; neither is in the returned list twice or at all
C9_BatchCandidateDropped ==
    /\ returned # None
    /\ LET f == FullTrajectory IN
       /\ \E c \in BatchCentres(f) :
             /\ BatchQualifies(f, c)
             /\ \E k \in 1..Len(bounces) : bounces[k].frame_id = f[c].frame_id
       /\ \E c \in BatchCentres(f) :
             /\ BatchQualifies(f, c)
             /\ \A i \in 1..Len(Final) : Final[i].frame_id # f[c].frame_id
             /\ \E i \in 1..Len(Final) :
                   /\ ~InStreaming(Final[i])
                   /\ Abs(Final[i].timestamp - f[c].timestamp) < bounce_cooldown

\* C5: every bounce of the streaming list and of the returned list has a
\* court position within the singles court widened by 3 m on every side,
\* and no detection whose court position is absent or outside it has
\* become a bounce.
C5_BouncesInsideMargin ==
    /\ \A k \in 1..Len(bounces) :
          /\ Abs(bounces[k].court_x) <= 4115 + 3000
          /\ Abs(bounces[k].court_y) <= 11885 + 3000
          /\ \A n \in 1..Len(all_positions) :
                all_positions[n].frame_id = bounces[k].frame_id
                    => CourtInsideMargin(all_positions[n])
    /\ returned # None =>
          LET f == FullTrajectory IN
          \A i \in 1..Len(Final) :
              /\ Abs(Final[i].court_x) <= 4115 + 3000
              /\ Abs(Final[i].court_y) <= 11885 + 3000
              /\ \A n \in 1..Len(f) :
                    f[n].frame_id = Final[i].frame_id => CourtInsideMargin(f[n])

\* C5 witness: a bounce-shaped window whose centre lies 4 m behind the
\* baseline, and a batch pass that returned nothing
C5_CandidateBeyondMarginDropped ==
    /\ LatestWindowShaped
    /\ Centre.court_y = Some(-15885)
    /\ bounces = <<>>
    /\ returned = Some(<<>>)

\* C5 second case reached: a bounce 1 m outside the sideline is recorded
C5_BounceInMarginRecorded ==
    /\ returned # None
    /\ \E i \in 1..Len(Final) : Final[i].court_x = 5115 /\ ~Final[i].is_in

\* pixel-y of the 7 detections of a session of exactly 7
Y(k) == all_positions[k].pixel_y
SevenPushed == Len(all_positions) = 7
RisesThenFalls ==
    /\ Y(1) < Y(2) /\ Y(2) < Y(3) /\ Y(3) < Y(4)
    /\ Y(4) > Y(5) /\ Y(5) > Y(6) /\ Y(6) > Y(7)
Monotone ==
    \/ \A k \in 1..6 : Y(k) <= Y(k+1)
    \/ \A k \in 1..6 : Y(k) >= Y(k+1)
OneBounceAtCentre(bs) ==
    Len(bs) = 1 /\ bs[1].frame_id = all_positions[4].frame_id
OneBounceAtCentreInBothLists ==
    /\ OneBounceAtCentre(bounces)
    /\ returned # None => OneBounceAtCentre(Final)
NoBounceInEitherList ==
    /\ bounces = <<>>
    /\ returned # None => Final = <<>>

\* C8 (as claimed): 7 detections at a uniform interval, on court, whose
\* pixel-y rises to the 4th by at least 20 px and then falls by at least
\* 20 px, yield exactly one bounce, at the 4th, in both lists; 7 detections
\* with monotone pixel-y yield none.
C8_RiseAndFallOf20AsClaimed ==
    SevenPushed =>
        /\ (RisesThenFalls /\ Y(4) - Y(1) >= 1200 /\ Y(4) - Y(7) >= 1200)
              => OneBounceAtCentreInBothLists
        /\ Monotone => NoBounceInEitherList

\* C8 (amended): 7 detections at a uniform interval, on court, whose
\* pixel-y rises to the 4th and then falls, every other detection at least
\* 20 px below the 4th, yield exactly one bounce, at the 4th, in both
\* lists; 7 detections with monotone pixel-y yield none.
C8_PeakOf20 ==
    SevenPushed =>
        /\ (RisesThenFalls /\ Y(4) - Y(3) >= 1200 /\ Y(4) - Y(5) >= 1200)
              => OneBounceAtCentreInBothLists
        /\ Monotone => NoBounceInEitherList

\* C8 witness: such a peak at a frame interval of 5, so that the batch pass
\* scanned 31 interpolated detections, and one bounce returned
C8_PeakFound ==
    /\ SevenPushed
    /\ RisesThenFalls /\ Y(4) - Y(3) >= 1200 /\ Y(4) - Y(5) >= 1200
    /\ all_positions[7].frame_id = 30
    /\ returned # None
    /\ OneBounceAtCentre(Final)
    /\ OneBounceAtCentre(bounces)

\* C10 (as claimed): once the batch pass has been called, no step changes
\* the sliding window, the history or the streaming bounce list.
C10_NoPushAfterBatchAsClaimed ==
    [][ finalized =>
          /\ positions' = positions
          /\ all_positions' = all_positions
          /\ bounces' = bounces ]_vars

\* C10 (amended): the batch pass leaves the tracker open: a later
\* add_detection is possible and, like any other, appends its detection to
\* the sliding window and to the history.
C10_PushAfterBatchAccepted ==
    /\ [](finalized /\ Len(all_positions) < MaxPushShort
            => ENABLED Push(ReuseInputs, MaxPushShort))
    /\ [][ (finalized /\ returned' = None) =>
              /\ Len(all_positions') = Len(all_positions) + 1
              /\ SubSeq(all_positions', 1, Len(all_positions)) = all_positions
              /\ positions'[Len(positions')] = all_positions'[Len(all_positions')]
          ]_vars

\* C10 witness: the 7th detection was pushed after the batch pass, and the
\* streaming pass recorded its bounce
C10_BounceRecordedAfterBatch ==
    /\ finalized
    /\ returned = None
    /\ Len(all_positions) = 7
    /\ Len(bounces) = 1

----------------------------------------------------------------------------
(* Claims about process_video, under SpecVideo *)

\* the detections of a 7-detection history are bounce-shaped: the 4th is
\* 40 px below the others on the image
HistoryBounceShaped ==
    /\ Len(all_positions) = 7
    /\ \A k \in 1..7 : all_positions[k].pixel_y = IF k = 4 THEN 2400 ELSE 0

\* C11 (as claimed): the frame_id of the detections handed to the tracker
\* strictly increases: no two detections of the history share a frame_id
\* and none is out of order.
C11_FrameIdsStrictlyIncrease ==
    \A i, j \in 1..Len(all_positions) :
        i < j => all_positions[i].frame_id < all_positions[j].frame_id

\* C12: the batch pass has been called exactly when process_video has
\* returned from tracking; it is called in the step that leaves the loop's
\* exit, reached by end of stream or by 'q', with no detection left to hand
\* over; after it nothing changes the tracker or the result; and on the
\* cancelled and calibrate-only paths neither add_detection nor the batch
\* pass has been called and the result has no bounces.
C12_BatchOnceAfterLastPush ==
    /\ [](finalized <=> pc = "finished")
    /\ [](pc = "finished" =>
             /\ returned # None
             /\ Val(result).bounces = Val(returned)
             /\ Val(result).detections = all_positions
             /\ pending = <<>>)
    /\ [](pc \in {"cancelled", "calibrated_only"} =>
             /\ all_positions = <<>>
             /\ returned = None
             /\ result = Some([detections |-> <<>>, bounces |-> <<>>]))
    /\ [][(finalized' /\ ~finalized) => (pc = "post" /\ all_positions' = all_positions)]_vars
    /\ [][finalized => UNCHANGED <<positions, all_positions, bounces, returned, result>>]_vars

\* C12 witness: the user quit while paused, after 7 detections, and the
\* batch pass returned the bounce
C12_QuitWhilePausedFinished ==
    /\ pc = "finished"
    /\ paused
    /\ HistoryBounceShaped
    /\ Len(Val(result).bounces) = 1

\* C13: without a forward matrix pixel_to_court raises, and without an
\* inverse matrix court_to_pixel does; every detection of a run without a
\* forward matrix is handed over all the same, with no court coordinates;
\* none becomes a bounce; and the run that finishes returns no bounces.
C13_NotCalibratedAbsorbed ==
    /\ calibrator.transform_matrix = None
          <=> pixel_to_court(calibrator, <<240, 2400, 60>>).raised
    /\ calibrator.inverse_matrix = None
          <=> court_to_pixel(calibrator, <<0, 0, 1>>).raised
    /\ (calibrator.transform_matrix = None /\ pc \in {"loop", "push", "post", "finished"}) =>
          /\ \A k \in 1..Len(all_positions) :
                all_positions[k].court_x = None /\ all_positions[k].court_y = None
          /\ \A k \in 1..Len(pending) :
                pending[k].court_x = None /\ pending[k].court_y = None
          /\ Val(result).detections = all_positions
          /\ bounces = <<>>
          /\ pc = "finished" => Val(result).bounces = <<>>

\* C13 witness: a run without a forward matrix went through a bounce-shaped
\* history of 7 detections in 5 frames and finished with no bounce
C13_UncalibratedRunFinished ==
    /\ pc = "finished"
    /\ calibrator.transform_matrix = None
    /\ HistoryBounceShaped
    /\ frame_id = 5
    /\ Val(result).bounces = <<>>

----------------------------------------------------------------------------
(* Claims about the history, the window and the interpolation, under       *)
(* SpecLong                                                                *)

\* the frames apart of the n-th and the next detection of the history
FrameGapAfter(n) == all_positions[n+1].frame_id - all_positions[n].frame_id

\* the positions in the trajectory f of the detections with a frame_id
\* strictly between those of the n-th and the next detection of the history
Between(f, n) ==
    {k \in 1..Len(f) :
        /\ all_positions[n].frame_id < f[k].frame_id
        /\ f[k].frame_id < all_positions[n+1].frame_id}

\* the detections of f between the n-th and the next of the history are
\* count many, one per frame from the first missing frame on, with
\* confidence 0.5 and pixel coordinates on the straight line between the
\* two, equally spaced over the gap
LinearlyFilled(f, n, count) ==
    /\ Cardinality(Between(f, n)) = count
    /\ \A j \in 1..count :
          \E k \in Between(f, n) :
              /\ f[k].frame_id = all_positions[n].frame_id + j
              /\ f[k].confidence = 50
              /\ FrameGapAfter(n) * (f[k].pixel_x - all_positions[n].pixel_x)
                     = j * (all_positions[n+1].pixel_x - all_positions[n].pixel_x)
              /\ FrameGapAfter(n) * (f[k].pixel_y - all_positions[n].pixel_y)
                     = j * (all_positions[n+1].pixel_y - all_positions[n].pixel_y)

\* C16 (as claimed): two consecutive detections with 5 frames missing
\* between them, frame_ids 6 apart, get exactly 4 synthetic detections
\* between them, linearly spaced and of confidence 0.5; two that are 20
\* frames apart get none.
C16_FiveMissingFramesGiveFour ==
    returned # None =>
        \A n \in 1..(Len(all_positions) - 1) :
            /\ FrameGapAfter(n) = 6 => LinearlyFilled(FullTrajectory, n, 4)
            /\ FrameGapAfter(n) = 20 => Between(FullTrajectory, n) = {}

\* C16 (amended): two consecutive detections whose frame_ids are 5 apart, 4
\* frames missing between them, get exactly 4 synthetic detections between
\* them, one per missing frame, linearly spaced and of confidence 0.5; two
\* that are 20 frames apart get none.
C16_GapOfFiveGivesFour ==
    returned # None =>
        \A n \in 1..(Len(all_positions) - 1) :
            /\ FrameGapAfter(n) = 5 => LinearlyFilled(FullTrajectory, n, 4)
            /\ FrameGapAfter(n) = 20 => Between(FullTrajectory, n) = {}

\* C16 witness: the batch pass ran on a history with detections 5 frames
\* apart, off the vertical and the horizontal, and detections 20 frames
\* apart
C16_BothGapsInterpolated ==
    /\ returned # None
    /\ \E n \in 1..(Len(all_positions) - 1) :
          /\ FrameGapAfter(n) = 5
          /\ all_positions[n+1].pixel_x # all_positions[n].pixel_x
          /\ all_positions[n+1].pixel_y # all_positions[n].pixel_y
    /\ \E n \in 1..(Len(all_positions) - 1) : FrameGapAfter(n) = 20

\* C17: the sliding window holds at most 60 detections, and is the latest
\* min(n, 60) detections of the history, in order, n being the number of
\* detections handed over; a step that changes a full window drops its
\* oldest detection.
C17_WindowIsLatestSixty ==
    /\ [](LET n == Len(all_positions)
              m == IF n <= 60 THEN n ELSE 60
          IN  /\ Len(positions) <= 60
              /\ Len(positions) = m
              /\ \A k \in 1..m : positions[k] = all_positions[n - m + k]
              /\ result # None => n = Len(Val(result).detections))
    /\ [][(Len(positions) = 60 /\ positions' # positions) =>
             /\ Len(positions') = 60
             /\ \A k \in 1..59 : positions'[k] = positions[k + 1]]_vars

\* C17 witness: 62 detections were handed over, the window holds the 3rd to
\* the 62nd
C17_WindowSlid ==
    /\ Len(all_positions) = 62
    /\ Len(positions) = 60
    /\ positions[1] = all_positions[3]
    /\ positions[60] = all_positions[62]
    /\ all_positions[1] # all_positions[3]

\* C18: the history is the detections handed over so far, in that order; a
\* step leaves it alone or appends one detection to it, and the batch pass,
\* interpolation included, leaves it alone.
C18_HistoryAppendOnly ==
    /\ [](result # None => all_positions = Val(result).detections)
    /\ [][\/ all_positions' = all_positions
          \/ /\ Len(all_positions') = Len(all_positions) + 1
             /\ \A k \in 1..Len(all_positions) : all_positions'[k] = all_positions[k]
             /\ pending # <<>>
             /\ all_positions'[Len(all_positions')] = pending[1]]_vars
    /\ [][pc = "post" => all_positions' = all_positions]_vars

\* C18 witness: after more than 60 detections, evictions from the window
\* and streaming bounces, the batch pass interpolated 9 detections and the
\* history is as it was handed over
C18_HistoryKeptThroughBatch ==
    /\ pc = "finished"
    /\ Len(all_positions) > 60
    /\ bounces # <<>>
    /\ Len(FullTrajectory) = Len(all_positions) + 9
    /\ all_positions = Val(result).detections

----------------------------------------------------------------------------
(* Claims about the streaming rule, under SpecShape *)

\* the 7 latest detections of the window after the step, and whether the
\* 4th of them is more than 15 px below the mean of the 3 before it and
\* the mean of the 3 after it
Latest7After(k) == positions'[Len(positions') - 7 + k]
RuleOf15After ==
    /\ 3 * Latest7After(4).pixel_y >
           Latest7After(1).pixel_y + Latest7After(2).pixel_y + Latest7After(3).pixel_y
               + 3 * 15 * 60
    /\ 3 * Latest7After(4).pixel_y >
           Latest7After(5).pixel_y + Latest7After(6).pixel_y + Latest7After(7).pixel_y
               + 3 * 15 * 60

\* the gates that follow the rule: no two of the 7 more than 0.5 s apart,
\* the 4th not within the cooldown of the last bounce, its court position
\* inside the margin
GatesOpenAfter ==
    /\ \A k \in 1..6 : Latest7After(k + 1).timestamp - Latest7After(k).timestamp <= 500
    /\ Latest7After(4).timestamp - last_bounce_time >= bounce_cooldown
    /\ CourtInsideMargin(Latest7After(4))

----------------------------------------------------------------------------
(* Claims about the calibrator, under SpecCalib *)

Hom(q) == <<q[1], q[2], 1>>

\* the matrix m takes each of the 4 points of src to its point of dst
TakesEachTo(m, src, dst) ==
    \A i \in 1..4 : PerspectiveTransform(m, Hom(src[i])) = Hom(dst[i])

LoadedRecordLacksMatrix ==
    /\ calibration_file # None
    /\ returned = Called("load", TRUE)
    /\ Len(Val(calibration_file).pixel_points) = 4
    /\ Len(Val(calibration_file).court_points) = 4
    /\ \/ Val(calibration_file).transform_matrix = None
       \/ Val(calibration_file).inverse_matrix = None

\* C14: after a load that succeeded on a record of 4 and 4 points in which
\* a matrix is absent, the calibrator has both matrices, computed from the
\* loaded points: the forward one takes each pixel point to its court
\* point, the inverse one each court point to its pixel point.
C14_LoadRecomputesAbsentMatrices ==
    LoadedRecordLacksMatrix =>
        /\ calibrator.pixel_points = Val(calibration_file).pixel_points
        /\ calibrator.court_points = Val(calibration_file).court_points
        /\ calibrator.transform_matrix # None
        /\ calibrator.inverse_matrix # None
        /\ TakesEachTo(Val(calibrator.transform_matrix),
                       calibrator.pixel_points, calibrator.court_points)
        /\ TakesEachTo(Val(calibrator.inverse_matrix),
                       calibrator.court_points, calibrator.pixel_points)

BuildReturned(ok) ==
    returned \in {Called("calibrate_interactive", ok), Called("_compute_transform", ok)}

Degenerate(q) == AllOnOneLine(q) \/ HasDuplicate(q)

\* C15: a build (calibrate_interactive saved with 's', or _compute_transform
\* called directly) succeeds only on exactly 4 pixel and 4 court points
\* that are not degenerate; on 4 pixel points that are all on one line or
\* hold a point twice it fails, and pixel_to_court raises afterwards.
C15_DegenerateBuildFails ==
    /\ BuildReturned(TRUE) =>
          /\ Len(calibrator.pixel_points) = 4
          /\ Len(calibrator.court_points) = 4
          /\ ~Degenerate(calibrator.pixel_points)
    /\ \A ok \in BOOLEAN :
          (/\ BuildReturned(ok)
           /\ Len(calibrator.pixel_points) = 4
           /\ Degenerate(calibrator.pixel_points)) =>
              /\ ~ok
              /\ pixel_to_court(calibrator, <<0, 0, 1>>).raised

\* (b - a) x (p - a): positive when p is to the left of the line a -> b
Cross(a, b, p) == (b[1] - a[1]) * (p[2] - a[2]) - (b[2] - a[2]) * (p[1] - a[1])

\* p is in the convex hull of the quadrilateral q, its corners in order
InsideHull(p, q) ==
    LET side(i) == Cross(q[i], q[(i % 4) + 1], p)
    IN  \/ \A i \in 1..4 : side(i) >= 0
        \/ \A i \in 1..4 : side(i) <= 0

BuiltFromValidCorrespondences ==
    /\ BuildReturned(TRUE)
    /\ Len(calibrator.pixel_points) = 4
    /\ GeneralPosition(calibrator.pixel_points)
    /\ calibrator.court_points = default_court_points

----------------------------------------------------------------------------
(* Claims about dropouts, under SpecDropout *)

\* after the step, two consecutive detections of the 7 most recent are more
\* than 0.5 s apart
LatestSevenBrokenAfter ==
    /\ Len(positions') >= 7
    /\ \E k \in 1..6 :
          Latest7After(k + 1).timestamp - Latest7After(k).timestamp > 500

\* C21: an add_detection after which two consecutive detections of the 7
\* most recent are more than 0.5 s apart leaves the streaming bounce list,
\* last_bounce_time and last_bounce_frame as they were.
C21_BrokenWindowSkipped ==
    [][ (all_positions' # all_positions /\ LatestSevenBrokenAfter)
            => UNCHANGED <<bounces, last_bounce_time, last_bounce_frame>> ]_vars

\* the 7 detections pushed are bounce-shaped by the 15 px rule, their
\* centre is on court, the ball was lost for more than 0.5 s among them, and
\* no bounce is recorded
ShapedButBroken ==
    /\ Len(positions) = 7
    /\ \E k \in 1..6 : LatestWindow[k+1].timestamp - LatestWindow[k].timestamp > 500
    /\ 3 * Centre.pixel_y > LatestWindow[1].pixel_y + LatestWindow[2].pixel_y
                              + LatestWindow[3].pixel_y + 2700
    /\ 3 * Centre.pixel_y > LatestWindow[5].pixel_y + LatestWindow[6].pixel_y
                              + LatestWindow[7].pixel_y + 2700
    /\ CourtInsideMargin(Centre)
    /\ bounces = <<>>
    /\ last_bounce_time = -1000

\* C21 witness: such a window, right after the push that completed it
C21_ShapedButBrokenPushed ==
    /\ ShapedButBroken
    /\ returned = None
    /\ ~finalized

\* the window of the centre c of the trajectory f holds two consecutive
\* detections more than 0.5 s and more than 15 frames apart
WindowBroken(f, c) ==
    \E k \in (c - 3)..(c + 2) :
        /\ f[k+1].timestamp - f[k].timestamp > 500
        /\ f[k+1].frame_id - f[k].frame_id > 15

\* no streaming bounce and no other qualifying centre is within the
\* cooldown of the centre c
NoRival(f, c) ==
    /\ \A k \in 1..Len(bounces) :
          Abs(bounces[k].timestamp - f[c].timestamp) >= bounce_cooldown
    /\ \A e \in BatchCentres(f) \ {c} :
          BatchQualifies(f, e) => Abs(f[e].timestamp - f[c].timestamp) >= bounce_cooldown

\* C26: a centre of the interpolated trajectory whose window is broken by a
\* gap of more than 0.5 s and more than 15 frames, that meets the 12 px
\* rule, has a court position inside the margin and has no rival within
\* the cooldown, is a bounce of the returned list.
C26_BatchHasNoTimeGate ==
    returned # None =>
        LET f == FullTrajectory IN
        \A c \in BatchCentres(f) :
            (WindowBroken(f, c) /\ BatchQualifies(f, c) /\ NoRival(f, c))
                => \E i \in 1..Len(Final) : SameEvent(Final[i], f[c])

\* C26 witness: the streaming pass skipped the only window, which is
\* bounce-shaped by its own rule and broken by a gap of 16 frames, and the
\* returned list holds its centre
C26_SkippedWindowReported ==
    /\ returned # None
    /\ ShapedButBroken
    /\ WindowBroken(FullTrajectory, 4)
    /\ Len(Final) = 1
    /\ SameEvent(Final[1], Centre)

\* C27: every streaming bounce has the frame_id, timestamp, pixel and court
\* coordinates of a pushed detection that is not among the first three or
\* the last three of the history, and every bounce of the returned list
\* those of an element of the interpolated trajectory that is not among
\* its first three or last three.
C27_BouncesCopyInnerElements ==
    /\ \A k \in 1..Len(bounces) :
          \E n \in 4..(Len(all_positions) - 3) : SameEvent(bounces[k], all_positions[n])
    /\ returned # None =>
          LET f == FullTrajectory IN
          \A i \in 1..Len(Final) : \E c \in BatchCentres(f) : SameEvent(Final[i], f[c])

\* C27 witness: the returned list holds a bounce copied from an
\* interpolated detection, of a frame in which no ball was detected
C27_BounceFromSynthetic ==
    /\ returned # None
    /\ \E i \in 1..Len(Final) :
          /\ \E c \in BatchCentres(FullTrajectory) :
                /\ SameEvent(Final[i], FullTrajectory[c])
                /\ FullTrajectory[c].confidence = 50
          /\ \A n \in 1..Len(all_positions) : all_positions[n].frame_id # Final[i].frame_id

----------------------------------------------------------------------------
(* Claims about interpolate_trajectory, under SpecGaps *)

\* the detections inserted after the n-th of the history: d - 1 for a frame
\* difference d with 3 < d <= 15, none otherwise
InsertedAfter(n) ==
    IF 3 < FrameGapAfter(n) /\ FrameGapAfter(n) <= 15 THEN FrameGapAfter(n) - 1 ELSE 0

\* where the n-th detection of the history is in the trajectory
RECURSIVE PlaceOf(_)
PlaceOf(n) == IF n = 1 THEN 1 ELSE PlaceOf(n - 1) + InsertedAfter(n - 1) + 1

\* C23: the interpolated trajectory is the history with, after each
\* detection that is followed by another d frames later, d - 1 synthetic
\* detections on the frames between them in increasing order when
\* 3 < d <= 15, and nothing when d <= 3 or d > 15; the pushed detections
\* are in it once each, unchanged, in their order.
C23_GapsFilledFrameByFrame ==
    all_positions # <<>> =>
        LET f == FullTrajectory IN
        /\ Len(f) = PlaceOf(Len(all_positions))
        /\ \A n \in 1..Len(all_positions) : f[PlaceOf(n)] = all_positions[n]
        /\ \A n \in 1..(Len(all_positions) - 1) :
              \A j \in 1..InsertedAfter(n) :
                  /\ f[PlaceOf(n) + j].frame_id = all_positions[n].frame_id + j
                  /\ f[PlaceOf(n) + j].confidence = 50

\* C23 witness: a history with frame differences of 3, 4, 15 and 16, in any
\* order, whose trajectory has the 5 detections and 3 + 14 synthetic ones
C23_AllFourGapsMet ==
    /\ returned # None
    /\ Len(all_positions) = 5
    /\ {FrameGapAfter(n) : n \in 1..4} = {3, 4, 15, 16}
    /\ Len(FullTrajectory) = 22

----------------------------------------------------------------------------
(* Claims about the batch pass, under SpecShape *)

\* C22: a trajectory of fewer than 7 elements returns the streaming list;
\* otherwise every bounce of the returned list that is not a streaming
\* bounce is a centre c, 3 before it and 3 after it, whose pixel-y is more
\* than 12 px above the mean of the 3 before it and of the 3 after it, and
\* every such centre with a court position inside the margin and no rival
\* within the cooldown is in the returned list.
C22_BatchRuleOnEveryCentre ==
    returned # None =>
        LET f == FullTrajectory IN
        /\ Len(f) < 7 => Final = bounces
        /\ \A i \in 1..Len(Final) :
              \/ InStreaming(Final[i])
              \/ \E c \in 4..(Len(f) - 3) :
                    /\ SameEvent(Final[i], f[c])
                    /\ 3 * f[c].pixel_y
                          > f[c-3].pixel_y + f[c-2].pixel_y + f[c-1].pixel_y + 3 * 720
                    /\ 3 * f[c].pixel_y
                          > f[c+1].pixel_y + f[c+2].pixel_y + f[c+3].pixel_y + 3 * 720
        /\ \A c \in 4..(Len(f) - 3) :
              (BatchQualifies(f, c) /\ NoRival(f, c))
                  => \E i \in 1..Len(Final) : SameEvent(Final[i], f[c])

\* C22 witness: 7 detections a frame apart whose centre is more than 12 px
\* but not more than 15 px above the mean of the 3 before it; the streaming
\* pass recorded nothing and the returned list holds the centre
C22_BetweenTwelveAndFifteen ==
    /\ returned # None
    /\ SevenPushed
    /\ Len(FullTrajectory) = 7
    /\ 3 * Y(4) > Y(1) + Y(2) + Y(3) + 3 * 720
    /\ 3 * Y(4) <= Y(1) + Y(2) + Y(3) + 3 * 900
    /\ bounces = <<>>
    /\ Len(Final) = 1
    /\ SameEvent(Final[1], all_positions[4])

----------------------------------------------------------------------------
(* Claims about the streaming list, under SpecSameFrame *)

\* C25: every step leaves the streaming bounce list as it is or appends
\* exactly one bounce to it, the bounces it held staying as they were, and
\* the frame_ids of the list never decrease along it.
C25_StreamingListGrowsAtEnd ==
    [][ /\ \/ bounces' = bounces
           \/ /\ Len(bounces') = Len(bounces) + 1
              /\ SubSeq(bounces', 1, Len(bounces)) = bounces
              /\ all_positions' # all_positions
        /\ \A i, j \in 1..Len(bounces') :
              i < j => bounces'[i].frame_id <= bounces'[j].frame_id
      ]_vars

\* C25 witness: a second bounce was appended to the streaming list
C25_SecondBounceAppended ==
    /\ Len(bounces) = 2
    /\ bounces[1].frame_id < bounces[2].frame_id
    /\ last_bounce_frame = bounces[2].frame_id

----------------------------------------------------------------------------
(* Claims about the cooldown and the rejected candidates, under            *)
(* SpecCooldown                                                            *)

\* after the step the 7 most recent detections are continuous in time and
\* bounce-shaped by the 15 px rule
CandidateAfter ==
    /\ Len(positions') >= 7
    /\ \A k \in 1..6 : Latest7After(k + 1).timestamp - Latest7After(k).timestamp <= 500
    /\ RuleOf15After

\* the candidate's court position is absent or outside the 3 m margin
CourtRejectsAfter == ~CourtInsideMargin(Latest7After(4))

\* the candidate is less than the cooldown after last_bounce_time
CooldownRejectsAfter ==
    Latest7After(4).timestamp - last_bounce_time < bounce_cooldown

\* C24: a push whose candidate is rejected by the cooldown, for its absent
\* court position or for a court position outside the margin leaves the
\* bounce list, last_bounce_time and last_bounce_frame as they were; the
\* two timers change only in a step that appends a bounce, to the
\* timestamp and frame_id of that bounce.
C24_RejectedCandidateLeavesNoTrace ==
    [][ /\ (/\ all_positions' # all_positions
            /\ CandidateAfter
            /\ (CooldownRejectsAfter \/ CourtRejectsAfter))
           => UNCHANGED <<bounces, last_bounce_time, last_bounce_frame>>
        /\ bounces' = bounces => UNCHANGED <<last_bounce_time, last_bounce_frame>>
        /\ bounces' # bounces =>
              /\ last_bounce_time' = bounces'[Len(bounces')].timestamp
              /\ last_bounce_frame' = bounces'[Len(bounces')].frame_id
      ]_vars

\* C24 witness: a candidate without court coordinates has just been
\* rejected by a tracker with the default cooldown, and nothing is recorded
C24_CandidateWithoutCourtRejected ==
    /\ bounce_cooldown = 500
    /\ LatestWindowShaped
    /\ Centre.court_x = None
    /\ bounces = <<>>
    /\ last_bounce_time = -1000
    /\ last_bounce_frame = -1

\* C28: while no bounce has been accepted last_bounce_time is -1 s, and a
\* push that makes a valid candidate (continuous, bounce-shaped, court
\* position inside the margin) at timestamp t while no bounce has been
\* accepted records no bounce exactly when t + 1 s < bounce_cooldown; with
\* a cooldown of at most 1 s it always records the bounce.
C28_FirstCandidateAgainstSentinel ==
    /\ [](bounces = <<>> => last_bounce_time = -1000)
    /\ [][ (/\ all_positions' # all_positions
            /\ bounces = <<>>
            /\ CandidateAfter
            /\ ~CourtRejectsAfter)
           => /\ bounces' = <<>> <=> Latest7After(4).timestamp + 1000 < bounce_cooldown
              /\ bounce_cooldown <= 1000 => Len(bounces') = 1
       ]_vars

\* C28 witness: with a cooldown of 2 s the first valid candidate, 0.7 s
\* into the session, was suppressed although no bounce precedes it
C28_FirstCandidateSuppressed ==
    /\ bounce_cooldown = 2000
    /\ LatestWindowQualifies
    /\ Centre.timestamp = 700
    /\ bounces = <<>>

----------------------------------------------------------------------------
(* Claims about the verdict carried by a bounce, under SpecVerdict *)

\* the bounce carries the verdict of the singles court and lies within 3 m
\* of the singles court
SinglesVerdict(b) ==
    /\ b.is_in <=> (Abs(b.court_x) <= 4115 /\ Abs(b.court_y) <= 11885)
    /\ b.is_in = is_point_in_bounds(b.court_x, b.court_y, "singles").is_in
    /\ b.distance_from_line = is_point_in_bounds(b.court_x, b.court_y, "singles").distance
    /\ Abs(b.court_x) <= 4115 + 3000
    /\ Abs(b.court_y) <= 11885 + 3000

\* C29: every bounce of the streaming list and of the returned list has
\* is_in exactly when |court_x| <= 4.115 m and |court_y| <= 11.885 m, has
\* the is_in and the distance that is_point_in_bounds gives for the singles
\* court, and lies within 3 m of the singles court.
C29_SinglesVerdictOnEveryBounce ==
    /\ \A k \in 1..Len(bounces) : SinglesVerdict(bounces[k])
    /\ returned # None => \A i \in 1..Len(Final) : SinglesVerdict(Final[i])

\* C29 witness: a bounce 1 m outside the singles sideline, inside the
\* doubles court, is in both lists as out
C29_OutForSinglesRecorded ==
    /\ returned # None
    /\ Len(bounces) = 1
    /\ Final = bounces
    /\ bounces[1].court_x = 5115
    /\ ~bounces[1].is_in
    /\ is_point_in_bounds(5115, 0, "doubles").is_in

----------------------------------------------------------------------------
(* Claims about the batch pass as an operation, under SpecDropout *)

\* C30: a step that pushes nothing (the batch pass) leaves the window, the
\* history, the streaming bounce list, last_bounce_time and
\* last_bounce_frame as they were, and the list it returned is the list a
\* further call would return from the tracker as it is then.
C30_BatchPassReadsOnly ==
    /\ [][all_positions' = all_positions =>
             UNCHANGED <<positions, bounces, last_bounce_time, last_bounce_frame>>]_vars
    /\ [](returned # None =>
             Final = AllBounces(all_positions, bounces, calibrator, bounce_cooldown))

\* C30 witness: the batch pass returned a bounce that the streaming list
\* does not hold, and the timers are those of a tracker without bounces
C30_BatchBounceNotStored ==
    /\ returned # None
    /\ finalized
    /\ Final # <<>>
    /\ bounces = <<>>
    /\ last_bounce_time = -1000
    /\ last_bounce_frame = -1
    /\ positions = all_positions

====
